---- MODULE Spec2Model ----
(***************************************************************************)
(* Sliding-window rate limiter on Cloudflare Durable Objects               *)
(* (src/src/index.ts): the RateLimiter durable object (fetch,              *)
(* slidingWindow), the coordinator rateLimit with its response cache, and  *)
(* the withRateLimiter handler.                                            *)
(***************************************************************************)
EXTENDS Integers, Sequences, FiniteSets, TLC

(***************************************************************************)
(* Bounds of the model.                                                    *)
(***************************************************************************)
\* clock ticks per second: Date.now() has sub-second resolution, the actor
\* takes its floor and the coordinator its ceiling
TicksPerSec == 2
\* the full system runs for this many ticks
MaxTicks == 4
\* the actor in isolation runs for this many ticks
MaxDecideTicks == 24
\* largest step of the clock, in ticks, between two calls of the actor in
\* isolation
MaxJump == 4
\* handler invocations in one behaviour of the full system
MaxCalls == 3
\* concurrent handler invocations
NumCallers == 2

(***************************************************************************)
(* JavaScript values: a number, NaN, null or undefined.                    *)
(***************************************************************************)
Num(n) == [tag |-> "num", val |-> n]
NaN == [tag |-> "nan", val |-> 0]
Null == [tag |-> "null", val |-> 0]
Undefined == [tag |-> "undefined", val |-> 0]

\* a + b of JavaScript for a number a: undefined and NaN give NaN
Plus(a, b) ==
    IF b.tag = "num" THEN Num(a + b.val)
    ELSE IF b.tag = "null" THEN Num(a)
    ELSE NaN

\* retryAt ?? 0
Coalesce(v, d) == IF v.tag \in {"null", "undefined"} THEN Num(d) ELSE v

\* a Math.max that lets the later rate win
MathMaxOverwrites(a, b) == a

\* Math.max(a, b): NaN when either argument is NaN
MathMax(a, b) ==
    IF a.tag = "nan" \/ b.tag = "nan" THEN NaN
    ELSE IF a.val >= b.val THEN a ELSE b

MinOf(S) == CHOOSE x \in S : \A y \in S : x <= y
MaxOf(S) == CHOOSE x \in S : \A y \in S : x >= y

(***************************************************************************)
(* The sliding window of the durable object.                               *)
(***************************************************************************)
Rate(l, i) == [limit |-> l, interval |-> i]

\* a recency predicate that leaves the boundary out
InWindowExclusive(request, interval, now) == request + interval > now

\* the recency predicate of both scans: request + interval >= now
InWindow(request, interval, now) == request + interval >= now

\* length of the prefix a scan walks before its break: the index of the
\* first item that fails the predicate, less one
ScanLen(array, interval, now) ==
    LET failing == {i \in 1..Len(array) : ~InWindow(array[i], interval, now)}
    IN  IF failing = {} THEN Len(array) ELSE MinOf(failing) - 1

\* a trim that keeps the whole log
FilterUntilKeepsAll(array, interval, now) == array

\* filterUntil(array, request => request + interval >= now)
FilterUntil(array, interval, now) ==
    SubSeq(array, 1, ScanLen(array, interval, now))

\* countUntil(array, request => request + interval >= now)
CountUntil(array, interval, now) ==
    LET n == ScanLen(array, interval, now)
    IN  [count |-> n, last |-> IF n = 0 THEN Undefined ELSE Num(array[n])]

\* a trim by the smallest interval
SmallestInterval(rates) == MinOf({rates[i].interval : i \in 1..Len(rates)})

\* Math.max(...rates.map(rate => rate.interval))
BiggestInterval(rates) == MaxOf({rates[i].interval : i \in 1..Len(rates)})

\* a test that admits one request too many
ViolatedAboveLimit(count, limit) == count > limit

\* the test of one rate
Violated(count, limit) == count >= limit

\* a loop that returns after the first rate
RetryLoopFirstOnly(rates, requests, now, i, retryAt) ==
    LET cu == CountUntil(requests, rates[1].interval, now)
    IN  IF Violated(cu.count, rates[1].limit)
        THEN MathMax(Plus(rates[1].interval, cu.last), Coalesce(retryAt, 0))
        ELSE retryAt

\* the loop over the rates, from rate i on, with retryAt so far
RECURSIVE RetryLoop(_, _, _, _, _)
RetryLoop(rates, requests, now, i, retryAt) ==
    IF i > Len(rates) THEN retryAt
    ELSE LET cu == CountUntil(requests, rates[i].interval, now)
         IN  RetryLoop(rates, requests, now, i + 1,
                 IF Violated(cu.count, rates[i].limit)
                 THEN MathMax(Plus(rates[i].interval, cu.last),
                              Coalesce(retryAt, 0))
                 ELSE retryAt)

\* a put that appends the timestamp of an admitted request
RecordedAtEnd(requests, retryAt, now) ==
    IF retryAt = Null THEN requests \o <<now>> ELSE requests

\* a put that records rejected requests too
RecordedAlways(requests, retryAt, now) == <<now>> \o requests

\* the log that is put back: now is recorded only when no rate is violated
Recorded(requests, retryAt, now) ==
    IF retryAt = Null THEN <<now>> \o requests ELSE requests

\* slidingWindow(rates, key, now) on the stored log: the log it puts and
\* the response it returns
SlidingWindow(rates, stored, now) ==
    LET requests == FilterUntil(stored, BiggestInterval(rates), now)
        retryAt == RetryLoop(rates, requests, now, 1, Null)
    IN  [requests |-> Recorded(requests, retryAt, now),
         counts |-> [i \in 1..Len(rates) |->
                        CountUntil(requests, rates[i].interval, now).count],
         status |-> IF retryAt = Null THEN "OK" ELSE "LIMITED",
         retryAt |-> retryAt,
         cacheControl |-> retryAt # Null,
         maxAge |-> IF retryAt = Null THEN Null
                    ELSE IF retryAt.tag = "num" THEN Num(retryAt.val - now)
                    ELSE NaN]

(***************************************************************************)
(* The deployment: callers, durable objects, buckets and rate lists.       *)
(***************************************************************************)
\* values of the CF-Connecting-IP header; NoIp is a missing header
IPs == {"ip1"}
NoIp == "no-ip"
DefaultIp == "127.0.0.1"
\* values of the key argument of withRateLimiter, a string; NoKey is a
\* missing argument
ExplicitKeys == {"k1"}
NoKey == "no-key"
\* names of durable objects and keys of buckets
Names == IPs \cup {DefaultIp}
Keys == ExplicitKeys \cup Names
Subjects == Names \X Keys

\* rate lists of the full system: well formed ones and a malformed one
WellFormed(rates) ==
    \A i \in 1..Len(rates) : rates[i].limit >= 1 /\ rates[i].interval >= 1
RateLists ==
    {<<Rate(1, 5)>>, <<Rate(1, 1), Rate(2, 2)>>, <<Rate(0, 1)>>}
\* the deployments of the full system: the env flag and the rates and key
\* arguments of withRateLimiter
Deployments ==
    {<<TRUE, <<Rate(1, 5)>>, "k1">>,
     <<TRUE, <<Rate(1, 1), Rate(2, 2)>>, NoKey>>,
     <<FALSE, <<Rate(1, 5)>>, "k1">>,
     <<FALSE, <<Rate(1, 1), Rate(2, 2)>>, NoKey>>,
     <<TRUE, <<Rate(0, 1)>>, NoKey>>}
\* rate lists of the actor in isolation
DecideRateLists ==
    {<<Rate(2, 10)>>, <<Rate(3, 10), Rate(1, 100)>>,
     <<Rate(1, 1), Rate(2, 3)>>, <<Rate(2, 2), Rate(1, 1)>>}
\* the durable object and bucket of the actor in isolation
DecideSubject == <<"ip1", "k1">>
\* rate lists of the actor under one rate list: those above, one whose
\* rates share the biggest interval and one whose biggest interval has the
\* bigger limit
FixedRateLists ==
    DecideRateLists
        \cup {<<Rate(3, 2), Rate(2, 2)>>, <<Rate(2, 1), Rate(3, 4)>>}

Callers == 1..NumCallers

(***************************************************************************)
(* State.                                                                  *)
(***************************************************************************)
VARIABLES
    clock,          \* Date.now(), in ticks
    allowMissingIp, \* env.RATE_LIMITER_ALLOW_MISSING_IP
    rateList,       \* the rates argument of withRateLimiter
    keyArg,         \* the key argument of withRateLimiter
    storage,        \* storage[<<name, key>>]: bucket B/sliding/key of the
                    \* durable object name
    cache,          \* the response cache, by request descriptor
    callers,        \* the handler invocations in flight
    calls,          \* handler invocations started
    admitted,       \* history of the full system: timestamps of the OK
                    \* responses of a bucket
    last            \* history of the actor in isolation: its latest
                    \* slidingWindow call

\* the configuration of the deployment
config == <<allowMissingIp, rateList, keyArg>>

vars == <<clock, config, storage, cache, callers, calls, admitted, last>>

\* Math.floor(Date.now() / 1000) and Math.ceil(Date.now() / 1000)
NowFloor(t) == t \div TicksPerSec
NowCeil(t) == (t + TicksPerSec - 1) \div TicksPerSec

\* the request descriptor: the url with k and the repeated r parameters
EncodeRate(r) == <<r.limit, r.interval>>
ParseRate(s) == Rate(s[1], s[2])
Url(key, rates) ==
    [k |-> key, r |-> [i \in 1..Len(rates) |-> EncodeRate(rates[i])]]
ParseRates(url) == [i \in 1..Len(url.r) |-> ParseRate(url.r[i])]
Urls == {Url(k, rs) : k \in Keys, rs \in RateLists}

\* JSON.stringify of a number: NaN becomes null
ToJson(v) == IF v.tag = "num" THEN v ELSE Null

NoResponse ==
    [status |-> "none", retryAt |-> Null, cacheControl |-> FALSE,
     maxAge |-> Null]
NoEntry == [present |-> FALSE, response |-> NoResponse, expires |-> 0]
NoResult == [kind |-> "none", retryAfter |-> 0]
IdleCaller ==
    [pc |-> "idle", ip |-> NoIp, key |-> NoKey, name |-> DefaultIp,
     url |-> Url(DefaultIp, <<>>),
     now |-> 0, requests |-> <<>>, cached |-> FALSE, matched |-> FALSE,
     contacted |-> FALSE, response |-> NoResponse, put |-> FALSE,
     result |-> NoResult]
NoCall ==
    [valid |-> FALSE, subject |-> DecideSubject, rates |-> <<>>, now |-> 0,
     stored |-> <<>>, requests |-> <<>>, counts |-> <<>>,
     status |-> "none", retryAt |-> Null]

Init ==
    /\ clock = 0
    /\ \E d \in Deployments :
          allowMissingIp = d[1] /\ rateList = d[2] /\ keyArg = d[3]
    /\ storage = [s \in Subjects |-> <<>>]
    /\ cache = [u \in Urls |-> NoEntry]
    /\ callers = [c \in Callers |-> IdleCaller]
    /\ calls = 0
    /\ admitted = [s \in Subjects |-> <<>>]
    /\ last = NoCall

\* the history after slidingWindow(rates, key, now) answered out
Call(subject, rates, now, stored, out) ==
    [valid |-> TRUE, subject |-> subject, rates |-> rates, now |-> now,
     stored |-> stored, requests |-> out.requests, counts |-> out.counts,
     status |-> out.status, retryAt |-> out.retryAt]

(***************************************************************************)
(* The actor in isolation: calls of fetch delivered one at a time to the   *)
(* durable object of DecideSubject, the clock advancing between them.      *)
(***************************************************************************)
Elapse(jump) ==
    /\ clock + jump <= MaxDecideTicks
    /\ clock' = clock + jump
    /\ UNCHANGED <<config, storage, cache, callers, calls, admitted, last>>

Decide(rates) ==
    LET now == NowFloor(clock)
        stored == storage[DecideSubject]
        out == SlidingWindow(ParseRates(Url(DecideSubject[2], rates)),
                             stored, now)
    IN  /\ storage' = [storage EXCEPT ![DecideSubject] = out.requests]
        /\ last' = Call(DecideSubject, rates, now, stored, out)
        /\ UNCHANGED <<clock, config, cache, callers, calls, admitted>>

NextDecide ==
    \/ \E jump \in 1..MaxJump : Elapse(jump)
    \/ \E rates \in DecideRateLists : Decide(rates)

InitDecide ==
    /\ Init
    /\ allowMissingIp = FALSE
    /\ rateList = <<Rate(1, 5)>>
    /\ keyArg = "k1"

SpecDecide == InitDecide /\ [][NextDecide]_vars

(***************************************************************************)
(* The actor in isolation under one rate list: every call of fetch carries *)
(* the rates of the deployment.                                            *)
(***************************************************************************)
DecideFixed == Decide(rateList)

NextFixed ==
    \/ \E jump \in 1..MaxJump : Elapse(jump)
    \/ DecideFixed

InitFixed ==
    /\ clock = 0
    /\ allowMissingIp = FALSE
    /\ rateList \in FixedRateLists
    /\ keyArg = "k1"
    /\ storage = [s \in Subjects |-> <<>>]
    /\ cache = [u \in Urls |-> NoEntry]
    /\ callers = [c \in Callers |-> IdleCaller]
    /\ calls = 0
    /\ admitted = [s \in Subjects |-> <<>>]
    /\ last = NoCall

SpecFixed == InitFixed /\ [][NextFixed]_vars

(***************************************************************************)
(* The full system: handler invocations of withRateLimiter, each running   *)
(* rateLimit against the response cache and the durable object of its      *)
(* name.                                                                   *)
(***************************************************************************)
\* an entry is served while its freshness lifetime lasts
Fresh(entry, t) == entry.present /\ t < entry.expires

\* a handler that ignores the env
MissingIpIgnoresEnv(ip, allow) == ip = NoIp

\* the handler refuses a request without a client ip unless the env allows
\* such requests
MissingIp(ip, allow) == ip = NoIp /\ ~allow

\* the handler, run by a free invocation, up to the answer of cache.match,
\* for the key (a string or missing) and the rates (an array) of the
\* deployment: it
\* returns 403 without a client ip unless the env allows it, else enters
\* rateLimit with the durable object name and the url; a fresh cache entry
\* is the response, else the durable object is asked
Handle(c, ip) ==
    /\ callers[c].pc = "idle"
    /\ \A d \in Callers : d < c => callers[d].pc # "idle"
    /\ calls < MaxCalls
    /\ calls' = calls + 1
    /\ callers' = [callers EXCEPT ![c] =
          IF MissingIp(ip, allowMissingIp)
          THEN [@ EXCEPT !.pc = "done", !.ip = ip, !.key = keyArg,
                         !.result = [kind |-> "403", retryAfter |-> 0]]
          ELSE LET key == keyArg
                   ip_ == IF ip = NoIp THEN DefaultIp ELSE ip
                   key_ == IF key = NoKey THEN ip_ ELSE key
                   entry == cache[Url(key_, rateList)]
               IN  IF Fresh(entry, clock)
                   THEN [@ EXCEPT !.pc = "reply", !.ip = ip, !.key = key,
                                  !.name = ip_,
                                  !.url = Url(key_, rateList),
                                  !.matched = TRUE, !.cached = TRUE,
                                  !.response = entry.response]
                   ELSE [@ EXCEPT !.pc = "fetch", !.ip = ip, !.key = key,
                                  !.name = ip_,
                                  !.url = Url(key_, rateList),
                                  !.matched = TRUE]]
    /\ UNCHANGED <<clock, config, storage, cache, admitted, last>>

\* a durable object that delivers events while storage operations are
\* outstanding
InputGateAlwaysOpen(name) == TRUE

\* the durable object delivers no other event while a storage operation
\* of an event is outstanding
InputGateOpen(name) ==
    \A c \in Callers :
        ~(callers[c].pc = "storage" /\ callers[c].name = name)

\* fetch of the durable object: now is taken, the rates are parsed and
\* slidingWindow awaits storage.get of the bucket
ActorFetch(c) ==
    /\ callers[c].pc = "fetch"
    /\ InputGateOpen(callers[c].name)
    /\ callers' = [callers EXCEPT ![c] =
          [@ EXCEPT !.pc = "storage", !.contacted = TRUE,
                    !.now = NowFloor(clock),
                    !.requests =
                        storage[<<callers[c].name, callers[c].url.k>>]]]
    /\ UNCHANGED <<clock, config, storage, cache, calls, admitted, last>>

\* slidingWindow after storage.get: the scans, storage.put and the
\* response, with which the locals of the call are gone
ActorPut(c) ==
    /\ callers[c].pc = "storage"
    /\ LET subject == <<callers[c].name, callers[c].url.k>>
           rates == ParseRates(callers[c].url)
           out == SlidingWindow(rates, callers[c].requests, callers[c].now)
       IN  /\ storage' = [storage EXCEPT ![subject] = out.requests]
           /\ callers' = [callers EXCEPT ![c] =
                 [@ EXCEPT !.pc = "reply", !.now = 0, !.requests = <<>>,
                           !.response =
                               [status |-> out.status,
                                retryAt |-> ToJson(out.retryAt),
                                cacheControl |-> out.cacheControl,
                                maxAge |-> out.maxAge]]]
           /\ admitted' = [admitted EXCEPT ![subject] =
                 IF out.status = "OK" THEN Append(@, callers[c].now) ELSE @]
    /\ UNCHANGED <<clock, config, cache, calls, last>>

\* a countdown frozen at the time the response was made by the actor
RetryAfterAtStore(response, t) == response.maxAge.val

\* data.retryAt - Math.ceil(Date.now() / 1000); a null retryAt counts as 0
RetryAfter(response, t) ==
    (IF response.retryAt.tag = "num" THEN response.retryAt.val ELSE 0)
        - NowCeil(t)

\* a store that also rewrites an entry it was answered from
ShouldStoreAgain(cached, response) == response.cacheControl

\* a LIMITED response is stored when it did not come from the cache and
\* carries a cache-control header
ShouldStore(cached, response) == ~cached /\ response.cacheControl

\* rateLimit after the response arrived: null on OK, else the store into
\* the cache is handed to waitUntil and the 429 is returned
Reply(c) ==
    /\ callers[c].pc = "reply"
    /\ callers' = [callers EXCEPT ![c] =
          IF callers[c].response.status = "OK"
          THEN [@ EXCEPT !.pc = "done",
                         !.result = [kind |-> "pass", retryAfter |-> 0]]
          ELSE [@ EXCEPT !.pc = "done",
                         !.put = ShouldStore(callers[c].cached,
                                             callers[c].response),
                         !.result =
                             [kind |-> "429",
                              retryAfter |->
                                  RetryAfter(callers[c].response, clock)]]]
    /\ UNCHANGED <<clock, config, storage, cache, calls, admitted, last>>

\* freshness lifetimes, in ticks, the cache may give a response: max-age
\* seconds (an entry of lifetime 0 is never served); a max-age that is no
\* number is either no lifetime or a lifetime of the cache's own choosing
Lifetimes(maxAge) ==
    IF maxAge.tag = "num" THEN {maxAge.val * TicksPerSec}
    ELSE {0, MaxTicks + 1}

\* cache.put(url, response) of waitUntil completes, which ends the
\* invocation
CachePut(c) ==
    /\ callers[c].pc = "done"
    /\ callers[c].put
    /\ \E lifetime \in Lifetimes(callers[c].response.maxAge) :
          cache' = [cache EXCEPT ![callers[c].url] =
              [present |-> TRUE, response |-> callers[c].response,
               expires |-> clock + lifetime]]
    /\ callers' = [callers EXCEPT ![c] = IdleCaller]
    /\ UNCHANGED <<clock, config, storage, calls, admitted, last>>

\* cache.put(url, response) of waitUntil fails, which ends the invocation;
\* nothing is stored
CachePutFails(c) ==
    /\ callers[c].pc = "done"
    /\ callers[c].put
    /\ callers' = [callers EXCEPT ![c] = IdleCaller]
    /\ UNCHANGED <<clock, config, storage, cache, calls, admitted, last>>

\* an invocation that handed nothing to waitUntil ends
Return(c) ==
    /\ callers[c].pc = "done"
    /\ ~callers[c].put
    /\ callers' = [callers EXCEPT ![c] = IdleCaller]
    /\ UNCHANGED <<clock, config, storage, cache, calls, admitted, last>>

\* time passes; entries whose lifetime is over leave the cache
Tick ==
    /\ clock < MaxTicks
    /\ clock' = clock + 1
    /\ cache' = [u \in Urls |->
          IF Fresh(cache[u], clock + 1) THEN cache[u] ELSE NoEntry]
    /\ UNCHANGED <<config, storage, callers, calls, admitted, last>>

Next ==
    \/ \E c \in Callers, ip \in IPs \cup {NoIp} : Handle(c, ip)
    \/ \E c \in Callers : ActorFetch(c)
    \/ \E c \in Callers : ActorPut(c)
    \/ \E c \in Callers : Reply(c)
    \/ \E c \in Callers : CachePut(c)
    \/ \E c \in Callers : CachePutFails(c)
    \/ \E c \in Callers : Return(c)
    \/ Tick

Spec == Init /\ [][Next]_vars

(***************************************************************************)
(* The full system with failing storage: storage.get or storage.put of a   *)
(* slidingWindow call may reject, for the one deployment of InitStorage.   *)
(***************************************************************************)
\* a coordinator that lets the request pass when the durable object failed
ThrownIsAllowed(caller) ==
    [caller EXCEPT !.pc = "done", !.contacted = TRUE, !.now = 0,
                   !.requests = <<>>,
                   !.result = [kind |-> "pass", retryAfter |-> 0]]

\* the rejection of a storage operation is not caught in slidingWindow,
\* fetch, rateLimit or the handler: the invocation ends with the error,
\* without a response and with nothing handed to waitUntil
Thrown(caller) ==
    [caller EXCEPT !.pc = "done", !.contacted = TRUE, !.now = 0,
                   !.requests = <<>>,
                   !.result = [kind |-> "error", retryAfter |-> 0]]

\* storage.get of a delivered fetch rejects
ActorGetFails(c) ==
    /\ callers[c].pc = "fetch"
    /\ InputGateOpen(callers[c].name)
    /\ callers' = [callers EXCEPT ![c] = Thrown(callers[c])]
    /\ UNCHANGED <<clock, config, storage, cache, calls, admitted, last>>

\* storage.put rejects: the bucket keeps the log it had
ActorPutFails(c) ==
    /\ callers[c].pc = "storage"
    /\ callers' = [callers EXCEPT ![c] = Thrown(callers[c])]
    /\ UNCHANGED <<clock, config, storage, cache, calls, admitted, last>>

NextStorage ==
    \/ Next
    \/ \E c \in Callers : ActorGetFails(c)
    \/ \E c \in Callers : ActorPutFails(c)

InitStorage ==
    /\ Init
    /\ allowMissingIp = FALSE
    /\ rateList = <<Rate(1, 5)>>
    /\ keyArg = "k1"

SpecStorage == InitStorage /\ [][NextStorage]_vars

(***************************************************************************)
(* Properties of one slidingWindow call, stated on the history last: the   *)
(* call read last.stored at time last.now under last.rates.                *)
(***************************************************************************)
\* positions of the stored log inside the window of an interval
Inside(interval) ==
    {j \in 1..Len(last.stored) : last.stored[j] + interval >= last.now}
\* positions of the trimmed log inside the window of rate i
InsideTrimmed(i) ==
    Inside(BiggestInterval(last.rates)) \cap Inside(last.rates[i].interval)
\* rates whose window holds at least limit entries
ViolatedRates ==
    {i \in 1..Len(last.rates) :
        Cardinality(InsideTrimmed(i)) >= last.rates[i].limit}
\* oldest timestamp inside the window of rate i, plus its interval
Candidate(i) ==
    MinOf({last.stored[j] : j \in InsideTrimmed(i)}) + last.rates[i].interval

\* C2: a call answers OK exactly when every rate has strictly fewer than
\* limit entries of the trimmed log inside its window, and LIMITED otherwise
C2_AllowedIffUnderEveryLimit ==
    last.valid =>
        /\ last.status \in {"OK", "LIMITED"}
        /\ last.status = "OK" <=> ViolatedRates = {}

\* C2 witness: rate 2:10, calls at 0 and 1 were admitted, the call at 2 is
\* LIMITED with retryAt 10
C2_Witness ==
    /\ last.valid
    /\ last.rates = <<Rate(2, 10)>>
    /\ last.now = 2
    /\ last.stored = <<1, 0>>
    /\ last.status = "LIMITED"
    /\ last.retryAt = Num(10)

\* C3: the retryAt of a LIMITED answer is the maximum over the violated
\* rates of the oldest timestamp inside the rate's window plus its interval
C3_RetryAtIsMaxOverViolated ==
    (last.valid /\ last.status = "LIMITED") =>
        last.retryAt = Num(MaxOf({Candidate(i) : i \in ViolatedRates}))

\* C3 witness: rates 3:10 and 1:100, one request admitted at 0, the call at
\* 5 is LIMITED with retryAt 100
C3_Witness ==
    /\ last.valid
    /\ last.rates = <<Rate(3, 10), Rate(1, 100)>>
    /\ last.stored = <<0>>
    /\ last.now = 5
    /\ last.status = "LIMITED"
    /\ last.retryAt = Num(100)

\* C4: an entry admitted at t0 counts toward a rate at now = t0 + interval
\* and no longer at now = t0 + interval + 1
C4_BoundaryInclusive ==
    last.valid =>
        \A i \in 1..Len(last.rates) : \A j \in 1..Len(last.stored) :
            /\ last.now = last.stored[j] + last.rates[i].interval
                  => last.counts[i] >= j
            /\ last.now = last.stored[j] + last.rates[i].interval + 1
                  => last.counts[i] < j

\* C4 witness: one call sees an entry exactly interval old, counted, and an
\* entry interval + 1 old, not counted
C4_Witness ==
    /\ last.valid
    /\ \E i \in 1..Len(last.rates) : \E j, k \in 1..Len(last.stored) :
          /\ last.now = last.stored[j] + last.rates[i].interval
          /\ last.now = last.stored[k] + last.rates[i].interval + 1
          /\ last.counts[i] = j
          /\ k = j + 1

\* C5: a LIMITED call puts back exactly the stored entries that are not
\* stale, without its own timestamp and never longer than before; after
\* every call, LIMITED or not, the persisted log holds no stale entry
C5_RejectedNotRecorded ==
    last.valid =>
        /\ storage[last.subject] = last.requests
        /\ \A j \in 1..Len(last.requests) :
              last.requests[j] + BiggestInterval(last.rates) >= last.now
        /\ last.status = "LIMITED" =>
              /\ last.requests =
                    SelectSeq(last.stored,
                        LAMBDA t : t + BiggestInterval(last.rates) >= last.now)
              /\ Len(last.requests) <= Len(last.stored)

\* C5 witness: a LIMITED call that dropped a stale entry
C5_Witness ==
    /\ last.valid
    /\ last.status = "LIMITED"
    /\ Len(last.requests) < Len(last.stored)
    /\ Len(last.requests) >= 1

\* C10: after a LIMITED answer with retryAt, the next call under the same
\* rates on the log that answer left, made at time retryAt, answers OK
C10_RetryAtAdmits ==
    [][(/\ last.valid
        /\ last.status = "LIMITED"
        /\ last.retryAt.tag = "num"
        /\ storage[last.subject] = last.requests
        /\ last' # last
        /\ last'.subject = last.subject
        /\ last'.rates = last.rates
        /\ last'.stored = last.requests
        /\ last'.now = last.retryAt.val)
       => last'.status = "OK"]_vars

(***************************************************************************)
(* Properties of the full system.                                          *)
(***************************************************************************)
\* the rates of the url of an invocation
RatesOf(c) == ParseRates(callers[c].url)
\* the bucket of an invocation
SubjectOf(c) == <<callers[c].name, callers[c].url.k>>

\* C1: under well formed rates, for every bucket and every rate, the OK
\* answers whose timestamps lie within one interval of each other never
\* outnumber the limit, also when calls wait at the durable object together
C1_WindowNeverExceedsLimit ==
    WellFormed(rateList) =>
        \A s \in Subjects : \A i \in 1..Len(rateList) :
            \A a \in 1..Len(admitted[s]) :
                Cardinality({b \in 1..Len(admitted[s]) :
                    /\ admitted[s][b] >= admitted[s][a]
                    /\ admitted[s][b] - admitted[s][a]
                          <= rateList[i].interval})
                    <= rateList[i].limit

\* C1 witness: two invocations asked the same bucket while the log was one
\* short of a limit; one was admitted and the other is LIMITED
C1_Witness ==
    /\ WellFormed(rateList)
    /\ \E c, d \in Callers :
          /\ c # d
          /\ SubjectOf(c) = SubjectOf(d)
          /\ callers[c].pc = "reply" /\ callers[c].contacted
          /\ callers[d].pc = "reply" /\ callers[d].contacted
          /\ callers[c].response.status = "OK"
          /\ callers[d].response.status = "LIMITED"
          /\ Len(admitted[SubjectOf(c)]) = 1

\* C6: a fresh cache entry for the url answers the invocation without the
\* durable object; the rejection then carries the entry's retryAt minus the
\* ceiling of the time at which the response is made
C6_CacheHitCountsDown ==
    [][\A c \in Callers :
        /\ (callers[c].pc = "idle" /\ callers'[c].pc = "fetch")
              => ~Fresh(cache[callers'[c].url], clock)
        /\ (callers[c].pc = "idle" /\ callers'[c].pc = "reply")
              => /\ Fresh(cache[callers'[c].url], clock)
                 /\ callers'[c].cached
                 /\ callers'[c].response = cache[callers'[c].url].response
        /\ (callers[c].pc = "reply" /\ callers[c].cached
               /\ callers'[c].pc = "done")
              => /\ ~callers'[c].contacted
                 /\ storage' = storage
                 /\ callers'[c].result.kind = "429"
                 /\ callers[c].response.retryAt.tag = "num" =>
                       callers'[c].result.retryAfter =
                           callers[c].response.retryAt.val
                               - ((clock + TicksPerSec - 1) \div TicksPerSec)
      ]_vars

\* C6 witness: an entry whose retryAt was 5 seconds after its now answered
\* 2 seconds later with Retry-After 3
C6_Witness ==
    \E c \in Callers :
        /\ callers[c].pc = "done"
        /\ callers[c].cached
        /\ ~callers[c].contacted
        /\ callers[c].response.maxAge = Num(5)
        /\ callers[c].result = [kind |-> "429", retryAfter |-> 3]

\* C7: every cache entry holds a LIMITED response; an entry is written only
\* by the store of an invocation that got LIMITED from the durable object,
\* never after OK or a cache hit, and leaves only when its lifetime is over
C7_CacheHoldsOnlyLimited ==
    [][/\ \A u \in Urls :
            /\ cache[u].present => cache[u].response.status = "LIMITED"
            /\ cache'[u].present => cache'[u].response.status = "LIMITED"
       /\ \A c \in Callers :
            callers'[c].put => /\ callers'[c].response.status = "LIMITED"
                               /\ ~callers'[c].cached
                               /\ callers'[c].contacted
       /\ \A u \in Urls :
            cache'[u] # cache[u] =>
                \/ /\ cache[u].present
                   /\ cache'[u] = NoEntry
                   /\ clock' >= cache[u].expires
                \/ \E c \in Callers :
                      /\ callers[c].put
                      /\ callers[c].url = u
                      /\ callers'[c].pc = "idle"
                      /\ cache'[u].present
                      /\ cache'[u].response = callers[c].response
      ]_vars

\* C7 witness: an invocation was answered from the cache and the entry is
\* still the one it read, while another invocation was admitted
C7_Witness ==
    \E c, d \in Callers :
        /\ callers[c].pc = "done"
        /\ callers[c].cached
        /\ cache[callers[c].url].present
        /\ cache[callers[c].url].response = callers[c].response
        /\ callers[d].pc = "done"
        /\ callers[d].result.kind = "pass"

\* the key rateLimit is called with: the explicit key when there is one,
\* else the client ip, else the default
DerivedKey(c) ==
    IF callers[c].key # NoKey THEN callers[c].key
    ELSE IF callers[c].ip # NoIp THEN callers[c].ip
    ELSE DefaultIp

\* C8 as stated: the 403 is returned only when there is neither an explicit
\* key nor a client ip and the env does not allow a missing ip
C8_RejectsOnlyWithoutKey ==
    \A c \in Callers :
        callers[c].result.kind = "403" =>
            /\ callers[c].key = NoKey
            /\ callers[c].ip = NoIp
            /\ ~allowMissingIp

\* C8 amended: the 403 is returned exactly when there is no client ip and
\* the env does not allow a missing ip, with or without an explicit key,
\* and then neither cache nor durable object is contacted; otherwise the
\* key is the explicit key, else the client ip, else the default
C8_RejectsWithoutIp ==
    \A c \in Callers :
        callers[c].pc # "idle" =>
            /\ callers[c].result.kind = "403"
                  <=> (callers[c].ip = NoIp /\ ~allowMissingIp)
            /\ callers[c].result.kind = "403"
                  => /\ ~callers[c].matched
                     /\ ~callers[c].contacted
                     /\ callers[c].pc = "done"
            /\ callers[c].matched => callers[c].url.k = DerivedKey(c)

\* C8 witness: a request with an explicit key and no client ip got the 403
\* while a request with a client ip was limited under the explicit key
C8_Witness ==
    \E c, d \in Callers :
        /\ callers[c].result.kind = "403"
        /\ callers[c].key \in ExplicitKeys
        /\ callers[c].ip = NoIp
        /\ ~callers[c].matched
        /\ callers[d].matched
        /\ callers[d].ip \in IPs
        /\ callers[d].url.k = callers[d].key

\* C9: a rate list with a rate of limit <= 0 or interval <= 0 reaches
\* neither the cache nor the durable object
C9_MalformedRejectedAtBoundary ==
    \A c \in Callers :
        (callers[c].matched \/ callers[c].contacted) => WellFormed(RatesOf(c))

\* C11: what an invocation is answered depends on the requests of its own
\* subject (durable object name and key) only, also when another name uses
\* the same key and rates: under well formed rates a subject none of whose
\* requests was admitted, as when the others make no request at all, is
\* never rejected
C11_SubjectsIndependent ==
    WellFormed(rateList) =>
        \A c \in Callers :
            callers[c].result.kind = "429" => admitted[SubjectOf(c)] # <<>>

\* C12: with a single subject (every request carries the one client ip)
\* and the rates of the deployment, whenever an invocation is answered from
\* the cache while no call of the subject is at the durable object,
\* slidingWindow on the stored log at that moment answers LIMITED with the
\* same retryAt
C12_CacheTransparent ==
    [][\A c \in Callers :
        (/\ ~allowMissingIp
         /\ callers[c].pc = "idle"
         /\ callers'[c].pc = "reply"
         /\ \A d \in Callers : callers[d].pc \notin {"fetch", "storage"})
        => LET out == SlidingWindow(ParseRates(callers'[c].url),
                          storage[<<callers'[c].name, callers'[c].url.k>>],
                          NowFloor(clock))
           IN  /\ out.status = "LIMITED"
               /\ ToJson(out.retryAt) = callers'[c].response.retryAt
      ]_vars

(***************************************************************************)
(* Properties of the stored log, stated on the history last.               *)
(***************************************************************************)
\* every entry of the log the call read is older than the biggest interval
AgedOut ==
    \A j \in 1..Len(last.stored) :
        last.stored[j] + BiggestInterval(last.rates) < last.now

\* C13: a call that reads a log all of whose entries have aged out counts
\* nothing under any rate, and answers and puts what the same call answers
\* and puts on a bucket without a log, so that later calls run on the log
\* of a new key
C13_AgedOutIsNew ==
    (last.valid /\ AgedOut) =>
        LET new == SlidingWindow(last.rates, <<>>, last.now)
        IN  /\ \A i \in 1..Len(last.rates) : last.counts[i] = 0
            /\ last.status = new.status
            /\ last.retryAt = new.retryAt
            /\ last.requests = new.requests
            /\ storage[last.subject] = new.requests

\* C13 witness: a call read a log of two entries, both aged out, and put a
\* log that holds its own timestamp only
C13_Witness ==
    /\ last.valid
    /\ AgedOut
    /\ Len(last.stored) >= 2
    /\ last.status = "OK"
    /\ storage[last.subject] = <<last.now>>

\* C14 as stated: the persisted log of every bucket is strictly
\* newest-first, each timestamp greater than the one stored after it
C14_StrictlyNewestFirst ==
    \A s \in Subjects : \A j \in 1..(Len(storage[s]) - 1) :
        storage[s][j] > storage[s][j + 1]

\* C14 amended: the persisted log of every bucket is newest-first, each
\* timestamp greater than or equal to the one stored after it; requests
\* admitted within the same second are equal neighbours
C14_NewestFirst ==
    \A s \in Subjects : \A j \in 1..(Len(storage[s]) - 1) :
        storage[s][j] >= storage[s][j + 1]

\* C14 witness: a second request was admitted in the second of the first
\* and the log holds that second twice
C14_Witness ==
    /\ last.valid
    /\ last.status = "OK"
    /\ last.stored = <<last.now>>
    /\ storage[last.subject] = <<last.now, last.now>>

\* the entries of the log the call read that are not older than the
\* biggest interval, in their order
Kept ==
    SelectSeq(last.stored,
        LAMBDA t : t + MaxOf({last.rates[i].interval :
                                 i \in 1..Len(last.rates)}) >= last.now)

\* C15: every call puts exactly the entries it read that are not older than
\* the biggest interval, behind its own timestamp when it answers OK, and
\* the count of every rate is the number of all entries read that lie
\* inside the rate's window, not of a prefix only
C15_ScansLoseNothing ==
    last.valid =>
        /\ last.requests =
              IF last.status = "OK" THEN <<last.now>> \o Kept ELSE Kept
        /\ storage[last.subject] = last.requests
        /\ \A i \in 1..Len(last.rates) :
              last.counts[i] = Cardinality(Inside(last.rates[i].interval))

\* C15 witness: an admitted call dropped a stale entry, kept another and
\* counted differently under two rates
C15_Witness ==
    /\ last.valid
    /\ last.status = "OK"
    /\ Len(Kept) >= 1
    /\ Len(Kept) < Len(last.stored)
    /\ \E i, k \in 1..Len(last.rates) : last.counts[i] < last.counts[k]

(***************************************************************************)
(* Properties of the full system with failing storage.                     *)
(***************************************************************************)
\* C16: a response of the durable object arrives only in the step that
\* completes storage.put of the working log; a call whose storage.get or
\* storage.put rejects leaves storage and cache as they were and ends the
\* invocation with the error, without a response; and an invocation passes
\* or rejects the request only on a response that says so
C16_DecisionAfterPut ==
    [][\A c \in Callers :
        /\ (callers[c].pc # "reply" /\ callers'[c].pc = "reply"
               /\ ~callers'[c].cached)
              => /\ callers[c].pc = "storage"
                 /\ callers'[c].response.status \in {"OK", "LIMITED"}
                 /\ storage'[SubjectOf(c)] =
                       IF callers'[c].response.status = "OK"
                       THEN <<callers[c].now>> \o
                                FilterUntil(callers[c].requests,
                                    BiggestInterval(RatesOf(c)),
                                    callers[c].now)
                       ELSE FilterUntil(callers[c].requests,
                                BiggestInterval(RatesOf(c)), callers[c].now)
        /\ (callers[c].pc \in {"fetch", "storage"}
               /\ callers'[c].pc = "done")
              => /\ callers'[c].result.kind = "error"
                 /\ callers'[c].response = NoResponse
                 /\ ~callers'[c].put
                 /\ storage' = storage
                 /\ cache' = cache
        /\ callers'[c].result.kind = "pass"
              => callers'[c].response.status = "OK"
        /\ callers'[c].result.kind = "429"
              => callers'[c].response.status = "LIMITED"
      ]_vars

\* C16 witness: an invocation ended with the error of a storage operation
\* and left no log, and another invocation was then admitted by the same
\* bucket
C16_Witness ==
    \E c, d \in Callers :
        /\ callers[c].pc = "done"
        /\ callers[c].result.kind = "error"
        /\ callers[d].pc = "done"
        /\ callers[d].result.kind = "pass"
        /\ SubjectOf(d) = <<callers[c].name, callers[c].url.k>>
        /\ admitted[SubjectOf(d)] = <<0>>
        /\ storage[SubjectOf(d)] = <<0>>

(***************************************************************************)
(* Properties of the times of the full system.                             *)
(***************************************************************************)
\* C17: no invocation is answered from the cache at a time later than the
\* retryAt of the entry, whenever the entry was stored
C17_NoCachedRejectionAfterRetryAt ==
    [][\A c \in Callers :
        (/\ callers[c].pc = "idle"
         /\ callers'[c].pc = "reply"
         /\ callers'[c].response.retryAt.tag = "num")
        => clock <= callers'[c].response.retryAt.val * TicksPerSec
      ]_vars

\* C18: under well formed rates every rejection, learned from the durable
\* object or from the cache, carries a Retry-After that is not negative
C18_RetryAfterNotNegative ==
    WellFormed(rateList) =>
        \A c \in Callers :
            callers[c].result.kind = "429"
                => callers[c].result.retryAfter >= 0

(***************************************************************************)
(* Properties of the actor under one rate list.                            *)
(***************************************************************************)
\* the smallest limit among the rates of the biggest interval
StorageBound(rates) ==
    MinOf({rates[i].limit :
              i \in {k \in 1..Len(rates) :
                        rates[k].interval =
                            MaxOf({rates[m].interval :
                                      m \in 1..Len(rates)})}})

\* C19: under one rate list of limits >= 1 the persisted log of a bucket is
\* never longer than the limit of the rate with the biggest interval, the
\* smallest such limit when rates share that interval, however many calls
\* were admitted and rejected
C19_StorageBounded ==
    WellFormed(rateList) =>
        \A s \in Subjects : Len(storage[s]) <= StorageBound(rateList)

\* C19 witness: under rates 3:2 and 2:2 a call well after the first ones
\* is rejected and the log holds two entries, the smaller of the two limits
C19_Witness ==
    /\ rateList = <<Rate(3, 2), Rate(2, 2)>>
    /\ last.valid
    /\ last.status = "LIMITED"
    /\ last.now >= 5
    /\ StorageBound(rateList) = 2
    /\ Len(storage[last.subject]) = 2

====
